---------------------------- MODULE Spec2Model ----------------------------
(***************************************************************************)
(* Model of SourceCode.py, the BER dataset cleaning script.                *)
(*                                                                         *)
(* A data row (pd.Series) is a function from column labels (strings) to    *)
(* values.  Decimal quantities are held as integers in hundredths          *)
(* (2.10 is 210, 336.19 is 33619); Year_of_Construction and NoStoreys are  *)
(* plain integers.  A missing Year_of_Construction cell is read by pandas  *)
(* as NaN, for which every ordering comparison is False.                   *)
(*                                                                         *)
(* Two specifications share the operators below:                           *)
(*   SpecRow  one record taken through cleaning_methodology, one function  *)
(*            per step, and then through filter_by_criteria;               *)
(*   Spec     process_csv_file, run with two chunk sizes over one input.   *)
(***************************************************************************)
EXTENDS Integers, Sequences, FiniteSets, TLC

VARIABLES
    \* ---- SpecRow: one record through the per-row functions
    data_row,         \* the pd.Series being cleaned
    prev_row,         \* the Series as it was before the last step
    stage,            \* which function returned last
    exclude_row,      \* the value filter_by_criteria returned
    now_year,         \* datetime.now().year
    \* ---- Spec: process_csv_file
    input_csv_file,   \* path argument (sequence of characters)
    output_csv_file,  \* path argument (sequence of characters)
    input,            \* the records of the input file, in file order
    existing,         \* what the output destination held before the run
    chunk_size,       \* run -> chunk_size argument
    pc,               \* run -> position of the run in process_csv_file
    pos,              \* run -> number of input records read so far
    chunks_done,      \* run -> number of chunks written
    first_write,      \* run -> the local first_write
    out,              \* run -> lines of the output destination
    \* ---- SpecConvert: convert_txt_to_csv (its output path is output_csv_file)
    input_txt_file,   \* path argument (sequence of characters)
    txt_exists,       \* whether the input path names a file
    txt_file,         \* the lines of the input file, each a sequence of characters
    csv_file,         \* the rows of the output destination, each a list of fields
    csv_existing,     \* what the output destination held before the call
    conv_pc,          \* position of the call in convert_txt_to_csv
    conv_line         \* number of lines read from txt_file

rowVars == <<data_row, prev_row, stage, exclude_row>>
procVars == <<input_csv_file, output_csv_file, input, existing, chunk_size,
              pc, pos, chunks_done, first_write, out>>
convVars == <<input_txt_file, txt_exists, txt_file, csv_file, csv_existing,
              conv_pc, conv_line>>
vars == <<data_row, prev_row, stage, exclude_row, now_year,
          input_csv_file, output_csv_file, input, existing, chunk_size,
          pc, pos, chunks_done, first_write, out,
          input_txt_file, txt_exists, txt_file, csv_file, csv_existing,
          conv_pc, conv_line>>

(***************************************************************************)
(* pd.Series helpers                                                       *)
(***************************************************************************)
\* data_row[key] = value (adds the label when it is absent)
SetItem(row, key, value) == (key :> value) @@ row

\* data_row[kept] for a list of labels
Select(row, kept) == [c \in kept |-> row[c]]

\* float('nan'): the value of an empty numeric cell
NaN == -1

\* float('-inf') and float('inf') of the bins list
NegInf == -1000000

PosInf == 1000000

\* a > b and a <= b on floats: False when either side is NaN
Gt(a, b) == a # NaN /\ b # NaN /\ a > b

\* Le with `<` in place of `<=`
Le_strict(a, b) == a # NaN /\ b # NaN /\ a < b

Le(a, b) == a # NaN /\ b # NaN /\ a <= b

(***************************************************************************)
(* add_desired_columns                                                     *)
(***************************************************************************)
bins == <<NegInf, 1899, 1929, 1949, 1966, 1977, 1982, 1993, 1999, 2004, 2009, PosInf>>

construction_period == <<"A", "B", "C", "D", "E", "F", "G", "H", "I", "J", "K">>

\* the for loop over range(len(bins)-1), from index i on: every bin whose
\* test succeeds assigns AgeBand, a later assignment overwriting an earlier
RECURSIVE AssignAgeBand(_, _)
AssignAgeBand(row, i) ==
    IF i > Len(bins) - 1 THEN row
    ELSE LET y == row["Year_of_Construction"]
             r == IF Gt(y, bins[i]) /\ Le(y, bins[i + 1])
                  THEN SetItem(row, "AgeBand", construction_period[i])
                  ELSE row
         IN AssignAgeBand(r, i + 1)

\* WindowArea / WallArea, kept to four decimals (both areas are hundredths)
Quotient(a, b) == (a * 10000) \div b

add_desired_columns(row) ==
    LET r1 == AssignAgeBand(row, 1)
        r2 == SetItem(r1, "ThermalEra",
                      IF Le(row["Year_of_Construction"], 1977) THEN "Pre" ELSE "Post")
        r3 == SetItem(r2, "GlazingPercent",
                      IF row["WallArea"] > 0
                      THEN Quotient(row["WindowArea"], row["WallArea"])
                      ELSE 0)
        r4 == SetItem(r3, "Volume",
                      row["GroundFloorArea(sq m)"]
                      * (row["GroundFloorHeight"] + row["FirstFloorHeight"]
                         + row["SecondFloorHeight"] + row["ThirdFloorHeight"]))
    IN r4

(***************************************************************************)
(* drop_unwanted_columns                                                   *)
(***************************************************************************)
\* col.startswith('Unnamed:') over the labels pandas gives a nameless column
StartsWithUnnamed(col) == col \in {"Unnamed: 0", "Unnamed: 1"}

drop_unwanted_columns(row) ==
    LET columns_to_drop ==
            {"FirstWallDescription", "SecondWallDescription", "ThirdWallDescription"}
            \cup {col \in DOMAIN row : StartsWithUnnamed(col)}
        kept_rows == {col \in DOMAIN row : col \notin columns_to_drop}
    IN Select(row, kept_rows)

(***************************************************************************)
(* correct_column_data                                                     *)
(***************************************************************************)
\* correct_column_data with the test `NoStoreys <= 4`
correct_column_data_le(row) ==
    IF row["NoStoreys"] <= 4
    THEN SetItem(row, "NoStoreys",
                 1 + Cardinality({height \in {"FirstFloorHeight", "SecondFloorHeight",
                                              "ThirdFloorHeight"} : row[height] > 0}))
    ELSE row

correct_column_data(row) ==
    IF row["NoStoreys"] < 4
    THEN SetItem(row, "NoStoreys",
                 1 + Cardinality({height \in {"FirstFloorHeight", "SecondFloorHeight",
                                              "ThirdFloorHeight"} : row[height] > 0}))
    ELSE row

(***************************************************************************)
(* filter_by_criteria                                                      *)
(***************************************************************************)
\* lo <= x <= hi
Within(lo, x, hi) == lo <= x /\ x <= hi

\* lo < x <= hi
WithinOpen(lo, x, hi) == lo < x /\ x <= hi

\* one range test of a case block: [lo, hi], or (lo, hi] when open
B(lo, hi) == [lo |-> lo, hi |-> hi, open |-> FALSE]

BO(lo, hi) == [lo |-> lo, hi |-> hi, open |-> TRUE]

\* the columns tested by every case block, in the order of its seven lines
CategoryColumns ==
    <<"LivingAreaPercent", "WallArea", "FloorArea", "GroundFloorArea(sq m)",
      "RoofArea", "WindowArea", "DoorArea">>

\* Clauses 6 - 16: case label -> the seven ranges of its block
CategoryTable ==
    ("Semi-detached house" :>
        <<B(1127, 3516), B(5319, 14796), B(3113, 11909), B(4875, 18683),
          B(3234, 12739), B(709, 4199), BO(0, 586)>>)
    @@ ("End of terrace house" :>
        <<B(1296, 5949), B(5662, 15561), B(2997, 10474), B(5868, 19049),
          B(2999, 10882), B(566, 3482), B(154, 1797)>>)
    @@ ("Detached house" :>
        <<B(754, 4589), B(3168, 33619), B(2887, 25560), B(5224, 42220),
          B(3008, 29085), B(561, 8348), BO(0, 628)>>)
    @@ ("Top-floor apartment" :>
        <<B(-23, 6228), B(463, 13935), B(0, 0), B(1829, 15306),
          B(1216, 12658), B(202, 3871), BO(0, 191)>>)
    @@ ("Mid-terrace house" :>
        <<B(1303, 7213), B(2924, 16364), B(3165, 10119), B(6113, 18989),
          B(3254, 11068), B(429, 2902), B(161, 2104)>>)
    @@ ("Maisonette" :>
        <<B(639, 7828), B(2088, 25543), B(-365, 84100), B(1282, 18230),
          B(-12143, 8478), B(183, 3575), B(183, 621)>>)
    @@ ("House" :>
        <<B(661, 3973), B(5796, 39264), B(-856, 24801), B(5363, 45375),
          B(-444, 28429), B(544, 7807), BO(0, 473)>>)
    @@ ("Apartment" :>
        <<B(4339, 5759), B(3, 13515), B(-141, 159688), B(1473, 14384),
          B(-474, 72523), B(172, 4762), B(178, 202)>>)
    @@ ("Ground-floor apartment" :>
        <<B(372, 6430), B(-579, 11386), B(223, 10771), B(1474, 12567),
          B(-19, 21401), B(296, 3276), B(145, 240)>>)
    @@ ("Mid-floor apartment" :>
        <<B(2159, 6504), B(-75, 10489), B(0, 0), B(861, 11422),
          B(0, 0), B(277, 4177), BO(0, 191)>>)
    @@ ("Basement Dwellinge" :>
        <<B(-470, 8183), B(94, 14801), B(-1276, 14122), B(243, 18937),
          B(-21, 23813), B(-28, 3229), B(29, 223)>>)

\* RangeFails with every lower end tested by `<`
RangeFails_open(b, x) == ~WithinOpen(b.lo, x, b.hi)

\* one line of a case block: True when it sets exclude_row
RangeFails(b, x) ==
    IF b.open THEN ~WithinOpen(b.lo, x, b.hi) ELSE ~Within(b.lo, x, b.hi)

\* match data_row['DwellingTypeDescr']: the seven tests of the matching case
\* block, or no test at all when no case label equals the value
CategoryClauses(row) ==
    IF row["DwellingTypeDescr"] \in DOMAIN CategoryTable
    THEN [k \in 1..7 |->
            RangeFails(CategoryTable[row["DwellingTypeDescr"]][k],
                       row[CategoryColumns[k]])]
    ELSE <<>>

\* a U-value test with the "or == 0" alternative
UValueFails(lo, x, hi) == ~(Within(lo, x, hi) \/ x = 0)

\* WallUValueFails with the "or == 0" alternative of the other U-values
WallUValueFails_zero(lo, x, hi) == ~(Within(lo, x, hi) \/ x = 0)

\* the UValueWall test: "not allowed to be zero"
WallUValueFails(lo, x, hi) == ~Within(lo, x, hi)

\* Clauses 17, 18
EraClauses(row) ==
    IF row["ThermalEra"] = "Pre"
    THEN <<UValueFails(110, row["UvalueDoor"], 390),
           UValueFails(118, row["UValueWindow"], 570),
           UValueFails(13, row["UValueRoof"], 199),
           UValueFails(16, row["UValueFloor"], 114),
           WallUValueFails(20, row["UValueWall"], 290)>>
    ELSE IF row["ThermalEra"] = "Post"
    THEN <<UValueFails(83, row["UvalueDoor"], 354),
           UValueFails(77, row["UValueWindow"], 480),
           UValueFails(11, row["UValueRoof"], 68),
           UValueFails(11, row["UValueFloor"], 114),
           WallUValueFails(14, row["UValueWall"], 172)>>
    ELSE <<>>

\* Clause 3: `allowed_substring in data_row` is membership in the labels of
\* the Series (pd.Series.__contains__ tests the index, not the values)
TypeOfRatingFails(row) ==
    ~(\E allowed_substring \in {"Final", "Existing", "Provisional"} :
          allowed_substring \in DOMAIN row)

\* Clauses 1 - 5
IndependentClauses(row, now) ==
    <<Gt(row["Year_of_Construction"], now),
      ~(Within(230, row["GroundFloorHeight"], 346) \/ row["GroundFloorHeight"] = 0),
      TypeOfRatingFails(row),
      ~(row["HSMainSystemEfficiency"] = 0
        \/ Within(2307, row["HSMainSystemEfficiency"], 9590)
        \/ Within(10000, row["HSMainSystemEfficiency"], 63534)),
      ~(row["WHMainSystemEff"] = 0
        \/ Within(2400, row["WHMainSystemEff"], 9590)
        \/ Within(10000, row["WHMainSystemEff"], 38990))>>

\* every `if ...: exclude_row = True` of the function, in program order
Clauses(row, now) ==
    IndependentClauses(row, now) \o CategoryClauses(row) \o EraClauses(row)

\* ExcludeAfter with every test assigning its own result to exclude_row
ExcludeAfter_assign(tests, n) == IF n = 0 THEN FALSE ELSE tests[n]

\* exclude_row after the first n tests: it starts False and a test that
\* succeeds assigns True
RECURSIVE ExcludeAfter(_, _)
ExcludeAfter(tests, n) ==
    IF n = 0 THEN FALSE
    ELSE IF tests[n] THEN TRUE ELSE ExcludeAfter(tests, n - 1)

filter_by_criteria(row, now) ==
    LET tests == Clauses(row, now) IN ExcludeAfter(tests, Len(tests))

(***************************************************************************)
(* find_and_replace                                                        *)
(***************************************************************************)
\* one `if (UValueWall == cur) and (FirstWallType_Description == wall)` line
W(cur, wall, new) == [cur |-> cur, wall |-> wall, new |-> new]

\* case label -> the UValueWall lines of its block, in program order
WallLines ==
    ("A" :> <<W(210, "Unknown", 269), W(210, "Stone", 290),
              W(164, "325mm Solid Brick", 155)>>)
    @@ ("B" :> <<W(210, "Unknown", 175), W(210, "Stone", 328),
                 W(210, "225mm Solid brick", 175), W(164, "325mm Solid Brick", 155)>>)
    @@ ("C" :> <<W(210, "Unknown", 212), W(210, "225mm Solid brick", 175),
                 W(178, "300mm Cavity", 120), W(220, "Solid Mass Concrete", 212)>>)
    @@ ("D" :> <<W(210, "Unknown", 269), W(178, "300mm Cavity", 185),
                 W(220, "Solid Mass Concrete", 212), W(240, "Concrete Hollow Block", 269)>>)
    @@ ("E" :> <<W(210, "Unknown", 214), W(178, "300mm Cavity", 154),
                 W(240, "Concrete Hollow Block", 214)>>)
    @@ ("F" :> <<W(110, "Unknown", 183), W(110, "300mm Cavity", 143),
                 W(60, "300mm Filled Cavity", 54), W(110, "Concrete Hollow Block", 183)>>)
    @@ ("G" :> <<W(60, "Unknown", 135), W(60, "300mm Cavity", 135),
                 W(60, "300mm Filled Cavity", 54), W(60, "Concrete Hollow Block", 172)>>)
    @@ ("H" :> <<W(55, "Unknown", 39), W(55, "300mm Filled Cavity", 39),
                 W(55, "Concrete Hollow Block", 54), W(55, "Timber Frame", 40)>>)
    @@ ("I" :> <<W(55, "Unknown", 28), W(55, "300mm Filled Cavity", 29),
                 W(55, "Timber Frame", 35)>>)
    @@ ("J" :> <<W(37, "Unknown", 27), W(37, "300mm Filled Cavity", 27),
                 W(37, "Timber Frame", 30)>>)
    @@ ("K" :> <<W(27, "Unknown", 27), W(27, "300mm Filled Cavity", 21),
                 W(27, "Timber Frame", 27)>>)

\* case label -> the `if (UValueRoof == cur): UValueRoof = new` line of its block
RoofLines ==
    ("A" :> <<230, 71>>) @@ ("B" :> <<230, 71>>) @@ ("C" :> <<230, 71>>)
    @@ ("D" :> <<230, 71>>) @@ ("E" :> <<230, 71>>) @@ ("F" :> <<49, 43>>)
    @@ ("G" :> <<49, 43>>) @@ ("H" :> <<40, 28>>) @@ ("I" :> <<36, 28>>)
    @@ ("J" :> <<25, 21>>) @@ ("K" :> <<25, 21>>)

\* WallLine without the test of FirstWallType_Description
WallLine_any_wall(row, w) ==
    IF row["UValueWall"] = w.cur THEN SetItem(row, "UValueWall", w.new) ELSE row

\* one UValueWall line, executed on the row as the lines before it left it
WallLine(row, w) ==
    IF row["UValueWall"] = w.cur /\ row["FirstWallType_Description"] = w.wall
    THEN SetItem(row, "UValueWall", w.new)
    ELSE row

\* the UValueWall lines of a block from line i on
RECURSIVE WallSteps(_, _, _)
WallSteps(row, lines, i) ==
    IF i > Len(lines) THEN row
    ELSE WallSteps(WallLine(row, lines[i]), lines, i + 1)

\* the UValueRoof line of a block
RoofLine(row, r) ==
    IF row["UValueRoof"] = r[1] THEN SetItem(row, "UValueRoof", r[2]) ELSE row

\* data_row['AgeBand'] raises KeyError when add_desired_columns assigned none
find_and_replace_raises(row) == "AgeBand" \notin DOMAIN row

find_and_replace(row) ==
    IF row["AgeBand"] \in DOMAIN WallLines
    THEN RoofLine(WallSteps(row, WallLines[row["AgeBand"]], 1),
                  RoofLines[row["AgeBand"]])
    ELSE row

(***************************************************************************)
(* cleaning_methodology                                                    *)
(***************************************************************************)
cleaning_methodology_raises(row) ==
    find_and_replace_raises(
        correct_column_data(add_desired_columns(drop_unwanted_columns(row))))

cleaning_methodology(row) ==
    find_and_replace(
        correct_column_data(add_desired_columns(drop_unwanted_columns(row))))

(***************************************************************************)
(* Input records.  Every record carries the columns the functions read;    *)
(* the families below vary the columns the clauses and tables test.        *)
(***************************************************************************)
\* a record that passes every test made on its values: a Detached house of
\* 1970 (AgeBand E, ThermalEra Pre) whose U-values lie in both eras' ranges
BaseRow ==
    ("Year_of_Construction" :> 1970) @@ ("TypeofRating" :> "Final")
    @@ ("DwellingTypeDescr" :> "Detached house")
    @@ ("GroundFloorHeight" :> 250) @@ ("FirstFloorHeight" :> 250)
    @@ ("SecondFloorHeight" :> 0) @@ ("ThirdFloorHeight" :> 0)
    @@ ("NoStoreys" :> 2)
    @@ ("HSMainSystemEfficiency" :> 9000) @@ ("WHMainSystemEff" :> 9000)
    @@ ("LivingAreaPercent" :> 2000) @@ ("WallArea" :> 10000)
    @@ ("FloorArea" :> 10000) @@ ("GroundFloorArea(sq m)" :> 10000)
    @@ ("RoofArea" :> 10000) @@ ("WindowArea" :> 2000) @@ ("DoorArea" :> 200)
    @@ ("UvalueDoor" :> 300) @@ ("UValueWindow" :> 300) @@ ("UValueRoof" :> 40)
    @@ ("UValueFloor" :> 50) @@ ("UValueWall" :> 100)
    @@ ("FirstWallType_Description" :> "Brick")
    @@ ("FirstWallDescription" :> "text") @@ ("SecondWallDescription" :> "text")
    @@ ("ThirdWallDescription" :> "text")

\* the columns a file may carry besides those of BaseRow
ExtraColumns == {{}, {"Final"}, {"Unnamed: 0"}}

WithColumns(row, extra) == [c \in extra |-> 0] @@ row

\* datetime.now().year at the time of the run
CurrentYears == {2023, 2024}

OneYearPerBand == {1890, 1910, 1940, 1960, 1970, 1980, 1990, 1996, 2002, 2007, 2015}

BoundaryYears ==
    {1899, 1900, 1929, 1930, 1949, 1950, 1966, 1967, 1977, 1978, 1982, 1983,
     1993, 1994, 1999, 2000, 2004, 2005, 2009, 2010, 2023, 2024, 2025, NaN}

WallTypes ==
    {"Unknown", "Stone", "325mm Solid Brick", "225mm Solid brick", "300mm Cavity",
     "Solid Mass Concrete", "Concrete Hollow Block", "300mm Filled Cavity",
     "Timber Frame", "Brick"}

WallUValues == {0, 27, 37, 55, 60, 100, 110, 164, 178, 210, 211, 220, 240}

RoofUValues == {0, 25, 36, 40, 49, 50, 230}

DwellingTypes ==
    {"Semi-detached house", "End of terrace house", "Detached house",
     "Top-floor apartment", "Mid-terrace house", "Maisonette", "House",
     "Apartment", "Ground-floor apartment", "Mid-floor apartment",
     "Basement Dwelling", "Bungalow"}

\* the ranges the data of a dwelling type is sampled around
SampleRanges(dt) ==
    IF dt = "Basement Dwelling" THEN CategoryTable["Basement Dwellinge"]
    ELSE IF dt \in DOMAIN CategoryTable THEN CategoryTable[dt]
    ELSE CategoryTable["Detached house"]

\* a record of dwelling type dt whose seven category values are in range
TypedRow(dt) ==
    [k \in {CategoryColumns[i] : i \in 1..7} |->
        LET i == CHOOSE j \in 1..7 : CategoryColumns[j] = k
        IN SampleRanges(dt)[i].hi]
    @@ ("DwellingTypeDescr" :> dt) @@ BaseRow

Around(b) == {b.lo - 1, b.lo, b.lo + 1, b.hi, b.hi + 1}

\* U-values against the default tables and the era ranges
UValueFamily ==
    {WithColumns(("Year_of_Construction" :> y) @@ ("FirstWallType_Description" :> w)
                 @@ ("UValueWall" :> uw) @@ ("UValueRoof" :> ur) @@ BaseRow, {"Final"}) :
        y \in OneYearPerBand, w \in WallTypes, uw \in WallUValues, ur \in RoofUValues}

\* one category value at and around the ends of its range, in both eras
CategoryFamily ==
    UNION {{WithColumns((CategoryColumns[p[2]] :> v) @@ ("Year_of_Construction" :> y)
                        @@ TypedRow(p[1]), extra) :
               v \in Around(SampleRanges(p[1])[p[2]]),
               y \in {1970, 1990}, extra \in ExtraColumns} :
           p \in DwellingTypes \X (1..7)}

\* Clauses 1 - 5, one column at a time, over every set of extra columns
IndependentFamily ==
    UNION {{WithColumns(("Year_of_Construction" :> y) @@ BaseRow, extra) :
                y \in BoundaryYears}
           \cup {WithColumns(("GroundFloorHeight" :> h) @@ ("TypeofRating" :> t)
                             @@ BaseRow, extra) :
                    h \in {0, 229, 230, 346, 347},
                    t \in {"Final", "Existing", "Provisional", "Cancelled"}}
           \cup {WithColumns(("HSMainSystemEfficiency" :> hs) @@ ("WHMainSystemEff" :> wh)
                             @@ BaseRow, extra) :
                    hs \in {0, 2306, 2307, 9590, 9591, 10000, 63534, 63535},
                    wh \in {0, 2399, 2400, 9590, 9591, 10000, 38990, 38991}} :
           extra \in ExtraColumns}

EraColumns == <<"UvalueDoor", "UValueWindow", "UValueRoof", "UValueFloor", "UValueWall">>

\* Clauses 17, 18: one U-value at and around the ends of either era's range
EraFamily ==
    {WithColumns((EraColumns[k] :> u) @@ ("Year_of_Construction" :> y) @@ TypedRow(dt),
                 extra) :
        k \in 1..5,
        u \in {0, 10, 11, 13, 14, 16, 19, 20, 68, 69, 77, 83, 110, 114, 115, 118,
               172, 173, 199, 200, 290, 291, 354, 355, 390, 391, 480, 481, 570, 571},
        y \in {1977, 1978}, dt \in {"Detached house", "Bungalow"},
        extra \in {{}, {"Final"}}}

\* NoStoreys against the three upper floor heights
StoreyFamily ==
    {WithColumns(("NoStoreys" :> n) @@ ("FirstFloorHeight" :> h1)
                 @@ ("SecondFloorHeight" :> h2) @@ ("ThirdFloorHeight" :> h3)
                 @@ BaseRow, {"Final"}) :
        n \in 0..5, h1 \in {-10, 0, 250}, h2 \in {0, 250}, h3 \in {0, 250}}

\* every construction year from before the first bin edge to after the last
YearFamily ==
    {WithColumns(("Year_of_Construction" :> y) @@ BaseRow, {"Final"}) : y \in 1880..2030}

RowUniverse ==
    UValueFamily \cup CategoryFamily \cup IndependentFamily \cup EraFamily
    \cup StoreyFamily \cup YearFamily

(***************************************************************************)
(* SpecRow: one record through cleaning_methodology and filter_by_criteria *)
(***************************************************************************)
NoRow == <<>>

InitRow ==
    /\ data_row \in RowUniverse
    /\ prev_row = NoRow
    /\ stage = "raw"
    /\ exclude_row = FALSE
    /\ now_year \in CurrentYears
    /\ input_csv_file = <<>>
    /\ output_csv_file = <<>>
    /\ input = <<>>
    /\ existing = <<>>
    /\ chunk_size = <<>>
    /\ pc = <<>>
    /\ pos = <<>>
    /\ chunks_done = <<>>
    /\ first_write = <<>>
    /\ out = <<>>
    /\ input_txt_file = <<>>
    /\ txt_exists = FALSE
    /\ txt_file = <<>>
    /\ csv_file = <<>>
    /\ csv_existing = <<>>
    /\ conv_pc = "none"
    /\ conv_line = 0

\* data_row = drop_unwanted_columns(data_row)
DropUnwantedColumns ==
    /\ stage = "raw"
    /\ prev_row' = data_row
    /\ data_row' = drop_unwanted_columns(data_row)
    /\ stage' = "dropped"
    /\ UNCHANGED <<exclude_row, now_year, procVars, convVars>>

\* data_row = add_desired_columns(data_row)
AddDesiredColumns ==
    /\ stage = "dropped"
    /\ prev_row' = data_row
    /\ data_row' = add_desired_columns(data_row)
    /\ stage' = "added"
    /\ UNCHANGED <<exclude_row, now_year, procVars, convVars>>

\* data_row = correct_column_data(data_row)
CorrectColumnData ==
    /\ stage = "added"
    /\ prev_row' = data_row
    /\ data_row' = correct_column_data(data_row)
    /\ stage' = "corrected"
    /\ UNCHANGED <<exclude_row, now_year, procVars, convVars>>

\* data_row = find_and_replace(data_row)
FindAndReplace ==
    /\ stage = "corrected"
    /\ ~find_and_replace_raises(data_row)
    /\ prev_row' = data_row
    /\ data_row' = find_and_replace(data_row)
    /\ stage' = "replaced"
    /\ UNCHANGED <<exclude_row, now_year, procVars, convVars>>

\* find_and_replace raises KeyError: the record has no AgeBand
FindAndReplaceRaises ==
    /\ stage = "corrected"
    /\ find_and_replace_raises(data_row)
    /\ stage' = "KeyError"
    /\ UNCHANGED <<data_row, prev_row, exclude_row, now_year, procVars, convVars>>

\* filter_by_criteria(chunk.loc[id]) on the cleaned record
FilterByCriteria ==
    /\ stage = "replaced"
    /\ exclude_row' = filter_by_criteria(data_row, now_year)
    /\ stage' = "filtered"
    /\ UNCHANGED <<data_row, prev_row, now_year, procVars, convVars>>

NextRow ==
    \/ DropUnwantedColumns
    \/ AddDesiredColumns
    \/ CorrectColumnData
    \/ FindAndReplace
    \/ FindAndReplaceRaises
    \/ FilterByCriteria

SpecRow == InitRow /\ [][NextRow]_vars

(***************************************************************************)
(* process_csv_file                                                        *)
(***************************************************************************)
\* str.endswith on paths held as sequences of characters
EndsWith(s, suffix) ==
    /\ Len(s) >= Len(suffix)
    /\ SubSeq(s, Len(s) - Len(suffix) + 1, Len(s)) = suffix

DotCsv == <<".", "c", "s", "v">>

\* the test of the first `raise FileAccessError`
ExtensionError_and(in, outp) == ~EndsWith(in, DotCsv) /\ ~EndsWith(outp, DotCsv)

ExtensionError(in, outp) == ~EndsWith(in, DotCsv) \/ ~EndsWith(outp, DotCsv)

\* the test of the second `raise FileAccessError`
SameFileError(in, outp) == in = outp

\* a line of a csv file: the header line carries the column labels, a data
\* line the record and the index label (chunk.index) it had in its chunk
HeaderLine(cols) == <<"header", 0, [c \in cols |-> c]>>

RowLine(id, row) == <<"row", id, row>>

\* mode = 'w' if first_write else 'a'
WriteMode_w(fw) == "w"

WriteMode(fw) == IF fw THEN "w" ELSE "a"

\* header = first_write
WriteHeader_always(fw) == TRUE

WriteHeader(fw) == fw

\* DataFrame.to_csv(path, mode, header, index = False)
to_csv(file, cols, lines, mode, header) ==
    (IF mode = "w" THEN <<>> ELSE file)
    \o (IF header THEN <<HeaderLine(cols)>> ELSE <<>>)
    \o lines

\* the index labels of the next chunk: pd.read_csv(chunksize) yields the
\* records in file order under a RangeIndex that runs on across chunks
ChunkIds(n, p, size) ==
    [k \in 1..(IF p + size <= n THEN size ELSE n - p) |-> p + k]

Reverse(seq) == [k \in 1..Len(seq) |-> seq[Len(seq) + 1 - k]]

\* the items list of chunk.filter, last label first
KeptIds_reversed(ids, rows, now) ==
    LET Kept(id) == filter_by_criteria(cleaning_methodology(rows[id]), now)
    IN Reverse(SelectSeq(ids, Kept))

\* [id for id in chunk.index if filter_by_criteria(chunk.loc[id])]: the
\* labels chunk.filter(items = ..., axis = 0) keeps, in the order of the list
KeptIds(ids, rows, now) ==
    LET Kept(id) == filter_by_criteria(cleaning_methodology(rows[id]), now)
    IN SelectSeq(ids, Kept)

\* chunk.apply(cleaning_methodology, axis = 1) raises when a record does
ChunkApplyRaises(ids, rows) ==
    \E k \in DOMAIN ids : cleaning_methodology_raises(rows[ids[k]])

\* the columns of the cleaned chunk
CleanedColumns(ids, rows) == DOMAIN cleaning_methodology(rows[ids[1]])

(***************************************************************************)
(* Spec: process_csv_file called twice on one input file, with             *)
(* chunk_size[1] and then with a larger chunk_size[2], each writing to a   *)
(* destination that holds `existing` when the call starts.  The calls      *)
(* share no state, so the second starts when the first has ended.          *)
(***************************************************************************)
MaxRows == 3

MaxChunk == MaxRows + 1

Runs == {1, 2}

Terminal == {"done", "FileAccessError", "KeyError"}

Paths == {<<"a">> \o DotCsv, <<"b">> \o DotCsv, <<"b", ".", "t", "x", "t">>}

\* the records a file is made of: one that passes every value test, one
\* with UValueWall 0, and one whose Year_of_Construction cell is empty
FileRows(extra) ==
    {WithColumns(BaseRow, extra),
     WithColumns(("UValueWall" :> 0) @@ BaseRow, extra),
     WithColumns(("Year_of_Construction" :> NaN) @@ BaseRow, extra)}

\* files of 1..MaxRows records, all records of a file having its columns
InputFiles ==
    UNION {UNION {[1..n -> FileRows(extra)] : n \in 1..MaxRows} :
           extra \in {{}, {"Final"}}}

StaleFile == <<HeaderLine({"old"})>>

Init ==
    /\ data_row = NoRow
    /\ prev_row = NoRow
    /\ stage = "none"
    /\ exclude_row = FALSE
    /\ now_year = 2024
    /\ input_csv_file \in Paths
    /\ output_csv_file \in Paths
    /\ input \in InputFiles
    /\ existing \in {<<>>, StaleFile}
    /\ chunk_size \in {f \in [Runs -> 1..MaxChunk] : f[1] < f[2]}
    /\ pc = [r \in Runs |-> "start"]
    /\ pos = [r \in Runs |-> 0]
    /\ chunks_done = [r \in Runs |-> 0]
    /\ first_write = [r \in Runs |-> TRUE]
    /\ out = [r \in Runs |-> existing]
    /\ input_txt_file = <<>>
    /\ txt_exists = FALSE
    /\ txt_file = <<>>
    /\ csv_file = <<>>
    /\ csv_existing = <<>>
    /\ conv_pc = "none"
    /\ conv_line = 0

Turn(r) == r = 1 \/ pc[1] \in Terminal

\* line 416-417: a path that does not end in '.csv'
RaiseNotCsv(r) ==
    /\ Turn(r)
    /\ pc[r] = "start"
    /\ ExtensionError(input_csv_file, output_csv_file)
    /\ pc' = [pc EXCEPT ![r] = "FileAccessError"]
    /\ UNCHANGED <<rowVars, now_year, convVars, input_csv_file, output_csv_file, input,
                   existing, chunk_size, pos, chunks_done, first_write, out>>

\* line 419-421: the same file given as input and output
RaiseSameFile(r) ==
    /\ Turn(r)
    /\ pc[r] = "start"
    /\ ~ExtensionError(input_csv_file, output_csv_file)
    /\ SameFileError(input_csv_file, output_csv_file)
    /\ pc' = [pc EXCEPT ![r] = "FileAccessError"]
    /\ UNCHANGED <<rowVars, now_year, convVars, input_csv_file, output_csv_file, input,
                   existing, chunk_size, pos, chunks_done, first_write, out>>

\* line 424: first_write = True, and the chunk iterator is opened
Begin(r) ==
    /\ Turn(r)
    /\ pc[r] = "start"
    /\ ~ExtensionError(input_csv_file, output_csv_file)
    /\ ~SameFileError(input_csv_file, output_csv_file)
    /\ pc' = [pc EXCEPT ![r] = "loop"]
    /\ first_write' = [first_write EXCEPT ![r] = TRUE]
    /\ UNCHANGED <<rowVars, now_year, convVars, input_csv_file, output_csv_file, input,
                   existing, chunk_size, pos, chunks_done, out>>

\* one pass of the for loop: clean, filter, write
ProcessChunk(r) ==
    /\ Turn(r)
    /\ pc[r] = "loop"
    /\ pos[r] < Len(input)
    /\ LET ids == ChunkIds(Len(input), pos[r], chunk_size[r])
           kept == KeptIds(ids, input, now_year)
           lines == [k \in 1..Len(kept) |->
                        RowLine(kept[k], cleaning_methodology(input[kept[k]]))]
       IN /\ ~ChunkApplyRaises(ids, input)
          /\ out' = [out EXCEPT ![r] =
                        to_csv(out[r], CleanedColumns(ids, input), lines,
                               WriteMode(first_write[r]), WriteHeader(first_write[r]))]
          /\ pos' = [pos EXCEPT ![r] = pos[r] + Len(ids)]
    /\ first_write' = [first_write EXCEPT ![r] = FALSE]
    /\ chunks_done' = [chunks_done EXCEPT ![r] = chunks_done[r] + 1]
    /\ UNCHANGED <<rowVars, now_year, convVars, input_csv_file, output_csv_file, input,
                   existing, chunk_size, pc>>

\* one pass of the for loop in which chunk.apply raises: the exception
\* leaves process_csv_file before the chunk is filtered or written
ChunkRaises(r) ==
    /\ Turn(r)
    /\ pc[r] = "loop"
    /\ pos[r] < Len(input)
    /\ LET ids == ChunkIds(Len(input), pos[r], chunk_size[r])
       IN /\ ChunkApplyRaises(ids, input)
          /\ pos' = [pos EXCEPT ![r] = pos[r] + Len(ids)]
    /\ pc' = [pc EXCEPT ![r] = "KeyError"]
    /\ UNCHANGED <<rowVars, now_year, convVars, input_csv_file, output_csv_file, input,
                   existing, chunk_size, chunks_done, first_write, out>>

\* the chunk iterator is exhausted: the function returns
Finish(r) ==
    /\ Turn(r)
    /\ pc[r] = "loop"
    /\ pos[r] = Len(input)
    /\ pc' = [pc EXCEPT ![r] = "done"]
    /\ UNCHANGED <<rowVars, now_year, convVars, input_csv_file, output_csv_file, input,
                   existing, chunk_size, pos, chunks_done, first_write, out>>

Next ==
    \E r \in Runs :
        \/ RaiseNotCsv(r)
        \/ RaiseSameFile(r)
        \/ Begin(r)
        \/ ProcessChunk(r)
        \/ ChunkRaises(r)
        \/ Finish(r)

Spec == Init /\ [][Next]_vars

(***************************************************************************)
(* Properties of the per-record functions (checked under SpecRow)          *)
(***************************************************************************)
\* the record passes every test but the n-th of filter_by_criteria
OthersPass(row, now, n) ==
    \A i \in DOMAIN Clauses(row, now) : i # n => ~Clauses(row, now)[i]

\* the value of the rating-type column contains an allowed word (over the
\* sampled values containment and equality coincide)
RatingAllowed(row) == row["TypeofRating"] \in {"Final", "Existing", "Provisional"}

\* C2: Clause 3 flags exclusion exactly when the value of the rating-type
\* column contains none of Final, Existing, Provisional: a record that
\* passes every other test is excluded iff its rating value is not allowed.
C2_RatingValueDecides ==
    (stage = "filtered" /\ OthersPass(data_row, now_year, 3))
        => (exclude_row <=> ~RatingAllowed(data_row))

\* some of the seven category values lies outside the Basement ranges
OutsideBasementRanges(row) ==
    \E k \in 1..7 :
        ~Within(CategoryTable["Basement Dwellinge"][k].lo, row[CategoryColumns[k]],
                CategoryTable["Basement Dwellinge"][k].hi)

\* C7: a 'Basement Dwelling' record with any of its seven category values
\* outside the category's range is excluded.
C7_BasementChecked ==
    (stage = "filtered" /\ data_row["DwellingTypeDescr"] = "Basement Dwelling"
     /\ OutsideBasementRanges(data_row))
        => exclude_row

\* C8: a record whose UValueWall is 0 is excluded in either thermal era,
\* whatever its other columns hold.
C8_WallZeroExcluded ==
    (stage = "filtered" /\ data_row["UValueWall"] = 0
     /\ data_row["ThermalEra"] \in {"Pre", "Post"})
        => exclude_row

\* a Pre record excluded for its zero UValueWall alone: with a wall U-value
\* inside the range the same record is kept
C8_Witness ==
    /\ stage = "filtered"
    /\ data_row["UValueWall"] = 0
    /\ data_row["ThermalEra"] = "Pre"
    /\ exclude_row
    /\ ~filter_by_criteria(SetItem(data_row, "UValueWall", 100), now_year)

\* C9: for a Detached house the WallArea test is inclusive at both ends:
\* a WallArea outside [31.68, 336.19] excludes the record, and one inside
\* it, 31.68 and 336.19 included, does not when every other test passes.
C9_DetachedWallArea ==
    (stage = "filtered" /\ data_row["DwellingTypeDescr"] = "Detached house")
        => /\ ~(3168 <= data_row["WallArea"] /\ data_row["WallArea"] <= 33619)
                => exclude_row
           /\ (/\ 3168 <= data_row["WallArea"] /\ data_row["WallArea"] <= 33619
               /\ ~filter_by_criteria(SetItem(data_row, "WallArea", 10000), now_year))
                => ~exclude_row

\* a Detached house kept with WallArea exactly 31.68
C9_Witness ==
    /\ stage = "filtered"
    /\ data_row["DwellingTypeDescr"] = "Detached house"
    /\ data_row["WallArea"] = 3168
    /\ ~exclude_row

\* (AgeBand, FirstWallType_Description, UValueWall) of the row is the key of
\* line w of the wall table
WallKey(row, w) ==
    row["UValueWall"] = w.cur /\ row["FirstWallType_Description"] = w.wall

\* C10: find_and_replace changes UValueWall only when the record's
\* (AgeBand, wall type, UValueWall) equals a table entry and UValueRoof only
\* when (AgeBand, UValueRoof) does, each lookup giving its entry's value
\* whatever the other does; no column is added, removed or otherwise changed.
C10_FindAndReplaceFrame ==
    stage = "replaced" =>
        LET band == prev_row["AgeBand"]
            lines == WallLines[band]
        IN /\ DOMAIN data_row = DOMAIN prev_row
           /\ \A c \in DOMAIN prev_row \ {"UValueWall", "UValueRoof"} :
                  data_row[c] = prev_row[c]
           /\ data_row["UValueWall"] # prev_row["UValueWall"]
                  => \E i \in DOMAIN lines : WallKey(prev_row, lines[i])
           /\ \A i \in DOMAIN lines :
                  WallKey(prev_row, lines[i]) => data_row["UValueWall"] = lines[i].new
           /\ data_row["UValueRoof"] # prev_row["UValueRoof"]
                  => prev_row["UValueRoof"] = RoofLines[band][1]
           /\ prev_row["UValueRoof"] = RoofLines[band][1]
                  => data_row["UValueRoof"] = RoofLines[band][2]

\* AgeBand A, wall type Brick, UValueWall 2.10: no entry, the wall U-value
\* stays, while the roof default 2.30 of the same record is replaced
C10_Witness ==
    /\ stage = "replaced"
    /\ prev_row["AgeBand"] = "A"
    /\ prev_row["FirstWallType_Description"] = "Brick"
    /\ prev_row["UValueWall"] = 210
    /\ data_row["UValueWall"] = 210
    /\ prev_row["UValueRoof"] = 230
    /\ data_row["UValueRoof"] = 71

(***************************************************************************)
(* Properties of process_csv_file (checked under Spec)                     *)
(***************************************************************************)
IsRowLine(line) == line[1] = "row"

\* the data lines of a file, and their index labels
RowLines(file) == SelectSeq(file, IsRowLine)

RowIds(file) == [k \in 1..Len(RowLines(file)) |-> RowLines(file)[k][2]]

\* the number of input records in the chunks run r has written
Written(r) ==
    IF chunks_done[r] * chunk_size[r] <= Len(input)
    THEN chunks_done[r] * chunk_size[r]
    ELSE Len(input)

\* the decision of filter_by_criteria on the cleaned i-th input record
Excluded(i) == filter_by_criteria(cleaning_methodology(input[i]), now_year)

\* C1: the rows written are exactly the cleaned records that pass
\* validation: of the records of the chunks written so far, those for which
\* filter_by_criteria returned False ('include') and no other.
C1_OutputIsIncluded ==
    \A r \in Runs :
        ~first_write[r] =>
            {RowIds(out[r])[k] : k \in DOMAIN RowIds(out[r])}
                = {i \in 1..Written(r) : ~Excluded(i)}

C4_OutputOrder ==
    \A r \in Runs :
        ~first_write[r] =>
            LET lines == RowLines(out[r])
            IN \A k \in DOMAIN lines :
                   /\ lines[k][2] \in 1..pos[r]
                   /\ lines[k][3] = cleaning_methodology(input[lines[k][2]])
                   /\ \A j \in 1..(k - 1) : lines[j][2] < lines[k][2]

\* two chunks written, the second record dropped by the filter: the rows
\* of records 1 and 3 follow each other across the chunk boundary
C4_Witness ==
    \E r \in Runs :
        /\ chunk_size[r] = 2
        /\ chunks_done[r] = 2
        /\ RowIds(out[r]) = <<1, 3>>

\* the rows chunk c of run r writes
RowsOfChunk(r, c) ==
    LET ids == ChunkIds(Len(input), (c - 1) * chunk_size[r], chunk_size[r])
        kept == SelectSeq(ids, Excluded)
    IN [k \in 1..Len(kept) |-> RowLine(kept[k], cleaning_methodology(input[kept[k]]))]

\* the rows of chunks 1..c of run r, in order
RECURSIVE RowsOfChunks(_, _)
RowsOfChunks(r, c) ==
    IF c = 0 THEN <<>> ELSE RowsOfChunks(r, c - 1) \o RowsOfChunk(r, c)

\* C5: from the first chunk write on, also after a later chunk has raised,
\* the output is one header line followed by the rows of the chunks
\* completed so far, in order, and nothing else.
C5_HeaderThenChunks ==
    \A r \in Runs :
        ~first_write[r] =>
            out[r] = <<HeaderLine(DOMAIN cleaning_methodology(input[1]))>>
                     \o RowsOfChunks(r, chunks_done[r])

\* a call that raised in its third chunk over a destination that held a
\* stale file: the rows of chunks 1 and 2 are there
C5_Witness ==
    \E r \in Runs :
        /\ pc[r] = "KeyError"
        /\ chunks_done[r] = 2
        /\ existing = StaleFile
        /\ Len(out[r]) = 3

\* the arguments process_csv_file must reject
BadArguments ==
    \/ input_csv_file = output_csv_file
    \/ ~EndsWith(input_csv_file, DotCsv)
    \/ ~EndsWith(output_csv_file, DotCsv)

\* C6: when input and output are the same path, or either path does not
\* end in '.csv', the call can only raise FileAccessError: it reads no
\* record, writes no chunk and leaves the output destination as it was.
C6_RejectedUpFront ==
    \A r \in Runs :
        BadArguments =>
            /\ pc[r] \in {"start", "FileAccessError"}
            /\ pos[r] = 0
            /\ chunks_done[r] = 0
            /\ out[r] = existing

\* the same '.csv' path given twice, over an existing file: FileAccessError
C6_Witness ==
    \E r \in Runs :
        /\ pc[r] = "FileAccessError"
        /\ input_csv_file = output_csv_file
        /\ EndsWith(input_csv_file, DotCsv)
        /\ out[r] = StaleFile

(***************************************************************************)
(* Properties of add_desired_columns and correct_column_data (SpecRow)     *)
(***************************************************************************)
\* the band of a construction year by the upper ends 1899 -> A ... 2009 -> J
BandOfYear(y) ==
    CASE y <= 1899 -> "A"
      [] y >= 1900 /\ y <= 1929 -> "B"
      [] y >= 1930 /\ y <= 1949 -> "C"
      [] y >= 1950 /\ y <= 1966 -> "D"
      [] y >= 1967 /\ y <= 1977 -> "E"
      [] y >= 1978 /\ y <= 1982 -> "F"
      [] y >= 1983 /\ y <= 1993 -> "G"
      [] y >= 1994 /\ y <= 1999 -> "H"
      [] y >= 2000 /\ y <= 2004 -> "I"
      [] y >= 2005 /\ y <= 2009 -> "J"
      [] y >= 2010 -> "K"

\* the bins whose test succeeds for year y, each an assignment of AgeBand
BinsAssigning(y) ==
    {i \in 1..(Len(bins) - 1) : Gt(y, bins[i]) /\ Le(y, bins[i + 1])}

\* C11: for every construction year add_desired_columns assigns AgeBand
\* exactly once, the band of the half-open interval (lower, upper] the year
\* lies in: 1899 -> A, 1900 -> B, 1977 -> E, 1978 -> F, above 2009 -> K.
C11_OneAgeBand ==
    (stage = "added" /\ prev_row["Year_of_Construction"] # NaN)
        => /\ "AgeBand" \in DOMAIN data_row
           /\ data_row["AgeBand"] = BandOfYear(prev_row["Year_of_Construction"])
           /\ Cardinality(BinsAssigning(prev_row["Year_of_Construction"])) = 1

\* the boundary year 1977 has been given band E
C11_Witness ==
    /\ stage = "added"
    /\ prev_row["Year_of_Construction"] = 1977
    /\ data_row["AgeBand"] = "E"

\* 1 when the floor height is strictly positive, else 0
Positive(h) == IF h > 0 THEN 1 ELSE 0

\* C12: correct_column_data sets NoStoreys to 1 plus the number of strictly
\* positive first, second and third floor heights when the raw NoStoreys is
\* below 4, leaves it as it is when it is 4 or more, and changes no other
\* column.
C12_NoStoreys ==
    stage = "corrected" =>
        /\ DOMAIN data_row = DOMAIN prev_row
        /\ \A c \in DOMAIN prev_row \ {"NoStoreys"} : data_row[c] = prev_row[c]
        /\ prev_row["NoStoreys"] < 4
               => data_row["NoStoreys"]
                      = 1 + Positive(prev_row["FirstFloorHeight"])
                          + Positive(prev_row["SecondFloorHeight"])
                          + Positive(prev_row["ThirdFloorHeight"])
        /\ prev_row["NoStoreys"] >= 4
               => data_row["NoStoreys"] = prev_row["NoStoreys"]

\* NoStoreys 4 with no upper floor recorded stays 4
C12_Witness ==
    /\ stage = "corrected"
    /\ prev_row["NoStoreys"] = 4
    /\ prev_row["FirstFloorHeight"] = 0
    /\ prev_row["SecondFloorHeight"] = 0
    /\ prev_row["ThirdFloorHeight"] = 0
    /\ data_row["NoStoreys"] = 4

(***************************************************************************)
(* Properties of filter_by_criteria as a whole (SpecRow)                   *)
(***************************************************************************)
\* C14: the decision of filter_by_criteria is the OR of its tests: a test
\* that flags exclusion is never undone by a later one, so the record is
\* excluded iff at least one test fails, in whatever order they are run.
C14_DecisionIsOr ==
    stage = "filtered" =>
        LET tests == Clauses(data_row, now_year)
        IN /\ exclude_row <=> (\E i \in DOMAIN tests : tests[i])
           /\ exclude_row = ExcludeAfter(Reverse(tests), Len(tests))

\* a record that fails Clause 1 only, the first test run, is excluded
C14_Witness ==
    /\ stage = "filtered"
    /\ Clauses(data_row, now_year)[1]
    /\ OthersPass(data_row, now_year, 1)
    /\ exclude_row

(***************************************************************************)
(* find_and_replace against the era ranges of filter_by_criteria (SpecRow) *)
(***************************************************************************)
\* the UValueWall and UValueRoof ranges of Clauses 17, 18 for a thermal era
WallRangeHolds(era, u) ==
    IF era = "Pre" THEN 20 <= u /\ u <= 290 ELSE 14 <= u /\ u <= 172

RoofRangeHolds(era, u) ==
    IF era = "Pre" THEN 13 <= u /\ u <= 199 ELSE 11 <= u /\ u <= 68

\* C15: every value find_and_replace writes into UValueWall or UValueRoof
\* lies in the range filter_by_criteria applies to the record's thermal era
\* (wall [0.20, 2.90] / [0.14, 1.72], roof [0.13, 1.99] / [0.11, 0.68]).
C15_DefaultsInRange ==
    stage = "replaced" =>
        /\ data_row["UValueWall"] # prev_row["UValueWall"]
               => WallRangeHolds(data_row["ThermalEra"], data_row["UValueWall"])
        /\ data_row["UValueRoof"] # prev_row["UValueRoof"]
               => RoofRangeHolds(data_row["ThermalEra"], data_row["UValueRoof"])

(***************************************************************************)
(* convert_txt_to_csv                                                      *)
(***************************************************************************)
DotTxt == <<".", "t", "x", "t">>

\* the test of `raise FileAccessError`
ConvertExtensionError(in, outp) == ~(EndsWith(in, DotTxt) \/ EndsWith(outp, DotCsv))

\* the characters str.strip removes
Whitespace == {" ", "\t", "\n"}

RECURSIVE LStrip(_)
LStrip(s) ==
    IF s # <<>> /\ Head(s) \in Whitespace THEN LStrip(Tail(s)) ELSE s

RECURSIVE RStrip(_)
RStrip(s) ==
    IF s # <<>> /\ s[Len(s)] \in Whitespace THEN RStrip(SubSeq(s, 1, Len(s) - 1)) ELSE s

\* line.strip()
Strip(s) == RStrip(LStrip(s))

\* s.split(sep): the fields between the separators, [''] for the empty string
RECURSIVE Split(_, _)
Split(s, sep) ==
    IF \E i \in DOMAIN s : s[i] = sep
    THEN LET i == CHOOSE k \in DOMAIN s : s[k] = sep /\ \A j \in 1..(k - 1) : s[j] # sep
         IN <<SubSeq(s, 1, i - 1)>> \o Split(SubSeq(s, i + 1, Len(s)), sep)
    ELSE <<s>>

\* fields = line.strip().split('\t')
Fields(line) == Split(Strip(line), "\t")

(***************************************************************************)
(* SpecConvert: one call of convert_txt_to_csv                             *)
(***************************************************************************)
MaxLines == 2

ConvertPaths ==
    {<<"a">> \o DotTxt, <<"b">> \o DotTxt, <<"a">> \o DotCsv, <<"b">> \o DotCsv}

\* lines of a text file: two fields, a leading tab, a blank line, and
\* blanks around a tab
TextLines ==
    {<<"a", "\t", "b", "\n">>, <<"\t", "a", "\n">>, <<"\n">>,
     <<"a", " ", "\t", " ", "b", "\n">>}

TextFiles == UNION {[1..n -> TextLines] : n \in 0..MaxLines}

StaleCsv == <<<<<<"o", "l", "d">>>>>>

InitConvert ==
    /\ data_row = NoRow
    /\ prev_row = NoRow
    /\ stage = "none"
    /\ exclude_row = FALSE
    /\ now_year = 2024
    /\ input_csv_file = <<>>
    /\ input = <<>>
    /\ existing = <<>>
    /\ chunk_size = <<>>
    /\ pc = <<>>
    /\ pos = <<>>
    /\ chunks_done = <<>>
    /\ first_write = <<>>
    /\ out = <<>>
    /\ input_txt_file \in ConvertPaths
    /\ output_csv_file \in ConvertPaths
    /\ txt_exists \in BOOLEAN
    /\ txt_file \in TextFiles
    /\ csv_existing \in {<<>>, StaleCsv}
    /\ csv_file = csv_existing
    /\ conv_pc = "start"
    /\ conv_line = 0

\* line 78-79
ConvertRaiseExtension ==
    /\ conv_pc = "start"
    /\ ConvertExtensionError(input_txt_file, output_csv_file)
    /\ conv_pc' = "FileAccessError"
    /\ UNCHANGED <<rowVars, now_year, procVars, input_txt_file, txt_exists,
                   txt_file, csv_file, csv_existing, conv_line>>

\* line 83, open(input_txt_file, 'r') of a path that names no file: the
\* output path is not opened
ConvertOpenFails ==
    /\ conv_pc = "start"
    /\ ~ConvertExtensionError(input_txt_file, output_csv_file)
    /\ ~txt_exists
    /\ conv_pc' = "FileNotFoundError"
    /\ UNCHANGED <<rowVars, now_year, procVars, input_txt_file, txt_exists,
                   txt_file, csv_file, csv_existing, conv_line>>

\* line 83-85, both files opened: mode 'w' empties the output destination,
\* which is the input file itself when the two paths are equal
ConvertOpen ==
    /\ conv_pc = "start"
    /\ ~ConvertExtensionError(input_txt_file, output_csv_file)
    /\ txt_exists
    /\ csv_file' = <<>>
    /\ txt_file' = IF input_txt_file = output_csv_file THEN <<>> ELSE txt_file
    /\ conv_pc' = "loop"
    /\ UNCHANGED <<rowVars, now_year, procVars, input_txt_file, txt_exists,
                   csv_existing, conv_line>>

\* line 88-95, one pass of `for line in txt_file`
ConvertLine ==
    /\ conv_pc = "loop"
    /\ conv_line < Len(txt_file)
    /\ csv_file' = Append(csv_file, Fields(txt_file[conv_line + 1]))
    /\ conv_line' = conv_line + 1
    /\ UNCHANGED <<rowVars, now_year, procVars, input_txt_file, txt_exists,
                   txt_file, csv_existing, conv_pc>>

\* line 97, the loop has ended and the files are closed
ConvertFinish ==
    /\ conv_pc = "loop"
    /\ conv_line = Len(txt_file)
    /\ conv_pc' = "done"
    /\ UNCHANGED <<rowVars, now_year, procVars, input_txt_file, txt_exists,
                   txt_file, csv_file, csv_existing, conv_line>>

NextConvert ==
    \/ ConvertRaiseExtension
    \/ ConvertOpenFails
    \/ ConvertOpen
    \/ ConvertLine
    \/ ConvertFinish

SpecConvert == InitConvert /\ [][NextConvert]_vars

\* the arguments convert_txt_to_csv must reject
BadConvertArguments ==
    ~EndsWith(input_txt_file, DotTxt) \/ ~EndsWith(output_csv_file, DotCsv)

\* C13: when the input path does not end in '.txt' or the output path does
\* not end in '.csv', convert_txt_to_csv can only raise FileAccessError: it
\* opens no file, reads no line and leaves the output destination as it was.
C13_ConvertRejects ==
    BadConvertArguments =>
        /\ conv_pc \in {"start", "FileAccessError"}
        /\ conv_line = 0
        /\ csv_file = csv_existing

=============================================================================
